---------------------------- MODULE Spec2Model ----------------------------
(***************************************************************************)
(* Model of the CommentFeed component                                      *)
(* (src/social-comment-box/src/components/comment-feed.tsx).               *)
(*                                                                         *)
(* A JavaScript string is modelled as the sequence of its UTF-16 code      *)
(* units, each written as a one-character TLA+ string ("a", " ", "#") or,  *)
(* outside ASCII, as "U+XXXX".  Opaque strings that the code never takes   *)
(* apart (ids, avatar colours) stay TLA+ strings.                          *)
(*                                                                         *)
(* The values the component derives from its state while rendering         *)
(* (trendingTopics, interactionsToday, charCount, charLeft, the disabled   *)
(* attribute of the submit button) are state functions of the model.       *)
(* createdAt is not carried in the Comment records: the only reader of it  *)
(* is relativeTimeFromNow, which SpecLabel applies to createdAtMs and      *)
(* nowMs.  SpecTags applies extractHashtags to bounded comment lists.      *)
(***************************************************************************)
EXTENDS Integers, Sequences, FiniteSets, TLC

VARIABLES
    comments,        \* useState<Comment[]>(seedComments)
    formState,       \* useState<FormState>(initialForm)
    isSubmitting,    \* useState(false)
    timers,          \* number of pending setTimeout callbacks of handleSubmit
    createdAtMs,     \* new Date(isoDate).getTime() of the comment being labelled
    nowMs,           \* Date.now() at render time
    derived,         \* what the derivation applied last returned (SpecLabel, SpecTags)
    lastCmd          \* observation: "submit" when handleSubmit ran last

vars == <<comments, formState, isSubmitting, timers, createdAtMs, nowMs, derived,
          lastCmd>>

---------------------------------------------------------------------------
(* Bounds of the model *)

\* successful submissions explored on top of the three seed comments
MaxNew == 2
\* a content edit may exceed MAX_CHAR_COUNT by up to this many characters
MaxOver == 1
\* length of the comment lists given to extractHashtags in SpecTags
MaxTagComments == 3
\* elapsed times given to relativeTimeFromNow reach this many days past two years
MaxDaysOver == 40

---------------------------------------------------------------------------
(* Strings *)

MAX_CHAR_COUNT == 280

\* the white space of String.prototype.trim and of the regex class \s
\* that occurs in the inputs of the model
WhiteSpace == {" ", "\t", "\n"}

LowerLetters == {"a","b","c","d","e","f","g","h","i","j","k","l","m",
                 "n","o","p","q","r","s","t","u","v","w","x","y","z"}

\* String.prototype.toLowerCase on one code unit
LowerCaseChar(c) ==
    CASE c = "A" -> "a" [] c = "B" -> "b" [] c = "C" -> "c" [] c = "D" -> "d"
      [] c = "E" -> "e" [] c = "F" -> "f" [] c = "G" -> "g" [] c = "H" -> "h"
      [] c = "I" -> "i" [] c = "J" -> "j" [] c = "K" -> "k" [] c = "L" -> "l"
      [] c = "M" -> "m" [] c = "N" -> "n" [] c = "O" -> "o" [] c = "P" -> "p"
      [] c = "Q" -> "q" [] c = "R" -> "r" [] c = "S" -> "s" [] c = "T" -> "t"
      [] c = "U" -> "u" [] c = "V" -> "v" [] c = "W" -> "w" [] c = "X" -> "x"
      [] c = "Y" -> "y" [] c = "Z" -> "z" [] OTHER -> c

toLowerCase(s) == [i \in 1..Len(s) |-> LowerCaseChar(s[i])]

\* the regex class [a-z0-9_] under the i flag
IsTagChar(c) ==
    \/ LowerCaseChar(c) \in LowerLetters
    \/ c \in {"0","1","2","3","4","5","6","7","8","9","_"}

RECURSIVE trimStart(_)
trimStart(s) ==
    IF s = <<>> THEN s
    ELSE IF Head(s) \in WhiteSpace THEN trimStart(Tail(s)) ELSE s

RECURSIVE trimEnd(_)
trimEnd(s) ==
    IF s = <<>> THEN s
    ELSE IF s[Len(s)] \in WhiteSpace THEN trimEnd(SubSeq(s, 1, Len(s) - 1)) ELSE s

\* String.prototype.trim
trim(s) == trimEnd(trimStart(s))

\* value.replace(/\s+/g, "")
removeWhitespace(s) == SelectSeq(s, LAMBDA c : c \notin WhiteSpace)

\* String.prototype.slice(0, n)
slice0(s, n) == SubSeq(s, 1, IF Len(s) < n THEN Len(s) ELSE n)

\* String.prototype.startsWith("@")
startsWithAt(s) == Len(s) > 0 /\ s[1] = "@"

\* an empty string is falsy
Falsy(s) == s = <<>>

Repeat(c, n) == [i \in 1..n |-> c]

---------------------------------------------------------------------------
(* Data *)

seedComments == <<
  [ id |-> "c1",
    displayName |-> <<"A","v","a"," ","C","h","e","n">>,
    username |-> <<"@","a","v","a","c","o","d","e","s">>,
    avatarColor |-> "bg-indigo-500",
    content |->
   <<"S","h","i","p","p","i","n","g"," ","a"," ","s","m","a","l","l"," ","U","I"," ",
     "p","o","l","i","s","h"," ","t","o","d","a","y"," ","U+2728"," ","K","e","e","p",
     "i","n","g"," ","m","i","c","r","o","-","i","n","t","e","r","a","c","t","i","o",
     "n","s"," ","s","m","o","o","t","h"," ","m","a","k","e","s"," ","a","l","l"," ",
     "t","h","e"," ","d","i","f","f","e","r","e","n","c","e",".">>,
    likes |-> 24, isLiked |-> FALSE, replies |-> 5 ],
  [ id |-> "c2",
    displayName |-> <<"D","a","n","i","e","l"," ","P","a","r","k">>,
    username |-> <<"@","d","p","a","r","k">>,
    avatarColor |-> "bg-emerald-500",
    content |->
   <<"L","o","v","i","n","g"," ","h","o","w"," ","t","h","i","s"," ","c","o","m","m",
     "u","n","i","t","y"," ","s","h","a","r","e","s"," ","f","e","e","d","b","a","c",
     "k"," ","c","o","n","s","t","r","u","c","t","i","v","e","l","y","."," ","K","e",
     "e","p"," ","t","h","e"," ","#","b","u","i","l","d","i","n","p","u","b","l","i",
     "c"," ","e","n","e","r","g","y"," ","g","o","i","n","g","!">>,
    likes |-> 12, isLiked |-> FALSE, replies |-> 2 ],
  [ id |-> "c3",
    displayName |-> <<"S","o","f","i","a"," ","M","o","r","a","l","e","s">>,
    username |-> <<"@","s","o","f","i","c","o","d","e">>,
    avatarColor |-> "bg-rose-500",
    content |->
   <<"J","u","s","t"," ","w","r","a","p","p","e","d"," ","t","h","e"," ","v","2"," ",
     "p","r","o","t","o","t","y","p","e","."," ","D","a","r","k"," ","m","o","d","e",
     " ","f","e","e","l","s"," ","U+D83D","U+DD25"," ","U+2014"," ","s","h","i","p","p",
     "i","n","g"," ","s","c","r","e","e","n","s","h","o","t","s"," ","l","a","t","e",
     "r"," ","t","o","d","a","y","."," ","#","d","e","s","i","g","n"," ","#","u","i">>,
    likes |-> 31, isLiked |-> FALSE, replies |-> 9 ] >>

initialForm == [displayName |-> <<>>, username |-> <<>>, content |-> <<>>]


---------------------------------------------------------------------------
(* Derivations *)

\* milliseconds per minute: the divisor of relativeTimeFromNow
MsPerMinute == 60000

\* A millisecond count t is held as [min |-> t \div MsPerMinute,
\* ms |-> t % MsPerMinute], so that a year of milliseconds stays inside the
\* integers of the checker.  The difference a - b of two such counts:
TimeDiff(a, b) ==
    IF a.ms >= b.ms
    THEN [min |-> a.min - b.min, ms |-> a.ms - b.ms]
    ELSE [min |-> a.min - b.min - 1, ms |-> a.ms - b.ms + MsPerMinute]

relativeTimeFromNow(isoDate, now) ==
    LET diffMs  == TimeDiff(now, isoDate)
        minutes == diffMs.min              \* Math.floor(diffMs / 60000)
        hours   == minutes \div 60
        days    == hours \div 24
        weeks   == days \div 7
        months  == days \div 30
        years   == days \div 365
    IN  IF diffMs.min < 1 THEN "just now"  \* diffMs < 60000
        ELSE IF minutes < 60 THEN ToString(minutes) \o "m"
        ELSE IF hours < 24 THEN ToString(hours) \o "h"
        ELSE IF days < 7 THEN ToString(days) \o "d"
        ELSE IF weeks < 5 THEN ToString(weeks) \o "w"
        ELSE IF months < 12 THEN ToString(months) \o "mo"
        ELSE ToString(years) \o "y"

\* the least element of a non-empty set of indices
Least(S) == CHOOSE k \in S : \A j \in S : k <= j

\* [a-z0-9_]+ is greedy: the index of the last character of the run of
\* [a-z0-9_] that starts at i
tagEnd(s, i) ==
    Least({k \in i..Len(s) : k = Len(s) \/ ~IsTagChar(s[k + 1])})

\* content.match(/#[a-z0-9_]+/gi), scanning from index i: the leftmost match
\* at or after i, then the scan resumes behind it; <<>> stands for null
RECURSIVE matchHashtags(_, _)
matchHashtags(s, i) ==
    LET starts == {k \in i..(Len(s) - 1) : s[k] = "#" /\ IsTagChar(s[k + 1])}
    IN  IF starts = {} THEN <<>>
        ELSE LET b == Least(starts)
                 e == tagEnd(s, b + 1)
             IN  <<SubSeq(s, b, e)>> \o matchHashtags(s, e + 1)

\* counts.set(lowered, (counts.get(lowered) ?? 0) + 1) on a Map held as the
\* sequence of its entries in insertion order
countsSet(counts, lowered) ==
    IF \E k \in 1..Len(counts) : counts[k].tag = lowered
    THEN [k \in 1..Len(counts) |->
            IF counts[k].tag = lowered
            THEN [counts[k] EXCEPT !.count = @ + 1]
            ELSE counts[k]]
    ELSE Append(counts, [tag |-> lowered, count |-> 1])

\* matches.forEach((tag) => ...)
RECURSIVE countMatches(_, _)
countMatches(counts, matches) ==
    IF matches = <<>> THEN counts
    ELSE countMatches(countsSet(counts, toLowerCase(Head(matches))), Tail(matches))

\* comments.forEach((comment) => ...)
RECURSIVE countComments(_, _)
countComments(counts, cs) ==
    IF cs = <<>> THEN counts
    ELSE countComments(countMatches(counts, matchHashtags(Head(cs).content, 1)),
                       Tail(cs))

\* mutant of sortInsert: an entry goes ahead of the entries it ties with
sortInsertAheadOfTies(sorted, e) ==
    LET before == {k \in 1..Len(sorted) : sorted[k].count > e.count}
        n      == Cardinality(before)
    IN  SubSeq(sorted, 1, n) \o <<e>> \o SubSeq(sorted, n + 1, Len(sorted))

\* e goes behind every entry that the comparator (a, b) => b[1] - a[1] does
\* not put after it: Array.prototype.sort is stable
sortInsert(sorted, e) ==
    LET before == {k \in 1..Len(sorted) : sorted[k].count >= e.count}
        n      == Cardinality(before)
    IN  SubSeq(sorted, 1, n) \o <<e>> \o SubSeq(sorted, n + 1, Len(sorted))

\* .sort((a, b) => b[1] - a[1])
RECURSIVE sortByCount(_, _)
sortByCount(sorted, rest) ==
    IF rest = <<>> THEN sorted
    ELSE sortByCount(sortInsert(sorted, Head(rest)), Tail(rest))

extractHashtags(cs) ==
    slice0(sortByCount(<<>>, countComments(<<>>, cs)), 4)

\* mutant of reduceInteractions: the replies are left out of the sum
RECURSIVE reduceInteractionsLikesOnly(_, _)
reduceInteractionsLikesOnly(total, cs) ==
    IF cs = <<>> THEN total
    ELSE reduceInteractionsLikesOnly(total + Head(cs).likes, Tail(cs))

\* comments.reduce((total, comment) => total + comment.likes + comment.replies, 0)
RECURSIVE reduceInteractions(_, _)
reduceInteractions(total, cs) ==
    IF cs = <<>> THEN total
    ELSE reduceInteractions(total + Head(cs).likes + Head(cs).replies, Tail(cs))

interactionsToday == reduceInteractions(0, comments)

\* useMemo(() => extractHashtags(comments), [comments])
trendingTopics == extractHashtags(comments)

charCount == Len(formState.content)
charLeft == MAX_CHAR_COUNT - charCount

\* the disabled attribute of the submit button
submitDisabled ==
    \/ charCount = 0
    \/ charLeft < 0
    \/ isSubmitting
    \/ Falsy(trim(formState.displayName))
    \/ Falsy(trim(formState.username))

---------------------------------------------------------------------------
(* Inputs *)

\* what the user types into the display name field
DisplayNameInputs == { <<>>, <<" ">>, <<" ","A","l"," ">> }

\* what the user types into the handle field
UsernameInputs == { <<" ","\t">>, <<"@","j","o">>, <<"j"," ","o">> }

\* what the user types or pastes into the content field; the long inputs
\* are " #UI " followed by x's, MAX_CHAR_COUNT + k characters in all
ContentInputs ==
    { <<>>, <<" ">> }
    \cup { <<" ","#","U","I"," ">> \o Repeat("x", MAX_CHAR_COUNT - 5 + k) :
             k \in 0..MaxOver }

\* the ids the like button can pass, and one that no comment has
CommentIds == { comments[i].id : i \in 1..Len(comments) } \cup { "c0" }

\* crypto.randomUUID(): an id no earlier comment has
randomUUID(cs) == "uuid-" \o ToString(Len(cs))

---------------------------------------------------------------------------
(* State and handlers *)

Init ==
    /\ comments = seedComments
    /\ formState = initialForm
    /\ isSubmitting = FALSE
    /\ timers = 0
    /\ createdAtMs = [min |-> 0, ms |-> 0]
    /\ nowMs = [min |-> 0, ms |-> 0]
    /\ derived = "none"
    /\ lastCmd = "mount"

handleFieldChange(prev, field, value) ==
    [prev EXCEPT ![field] = IF field = "username" THEN removeWhitespace(value)
                            ELSE value]

\* onChange of the display name input
ChangeDisplayName ==
    \E v \in DisplayNameInputs :
        /\ formState' = handleFieldChange(formState, "displayName", v)
        /\ lastCmd' = "other"
        /\ UNCHANGED <<comments, isSubmitting, timers, createdAtMs, nowMs, derived>>

\* onChange of the handle input
ChangeUsername ==
    \E v \in UsernameInputs :
        /\ formState' = handleFieldChange(formState, "username", v)
        /\ lastCmd' = "other"
        /\ UNCHANGED <<comments, isSubmitting, timers, createdAtMs, nowMs, derived>>

\* mutant of contentValue: the value is passed on as typed
contentValueUncapped(value) == value

\* event.target.value.slice(0, MAX_CHAR_COUNT)
contentValue(value) == slice0(value, MAX_CHAR_COUNT)

\* onChange of the content textarea
ChangeContent ==
    \E v \in ContentInputs :
        /\ formState' = handleFieldChange(formState, "content", contentValue(v))
        /\ lastCmd' = "other"
        /\ UNCHANGED <<comments, isSubmitting, timers, createdAtMs, nowMs, derived>>

\* mutant of newComment: the handle is prefixed without looking at it
newCommentAlwaysPrefixed ==
    [ id |-> randomUUID(comments),
      displayName |-> trim(formState.displayName),
      username |-> <<"@">> \o formState.username,
      avatarColor |-> "bg-sky-500",
      content |-> trim(formState.content),
      likes |-> 0, isLiked |-> FALSE, replies |-> 0 ]

newComment ==
    LET normalizedHandle == IF startsWithAt(formState.username)
                            THEN formState.username
                            ELSE <<"@">> \o formState.username
    IN  [ id |-> randomUUID(comments),
          displayName |-> trim(formState.displayName),
          username |-> normalizedHandle,
          avatarColor |-> "bg-sky-500",
          content |-> trim(formState.content),
          likes |-> 0, isLiked |-> FALSE, replies |-> 0 ]

\* mutant of draftRejected: the content check is left out
draftRejectedNoContentCheck ==
    Falsy(trim(formState.displayName)) \/ Falsy(trim(formState.username))

\* the two early returns of handleSubmit
draftRejected ==
    \/ Falsy(trim(formState.displayName)) \/ Falsy(trim(formState.username))
    \/ Falsy(trim(formState.content))

\* the form's onSubmit.  The handler does not read isSubmitting, so it is
\* modelled as callable in every state, as the submit command of the store.
handleSubmit ==
    /\ lastCmd' = "submit"
    /\ IF draftRejected
       THEN UNCHANGED <<comments, formState, isSubmitting, timers>>
       ELSE /\ Len(comments) < Len(seedComments) + MaxNew
            /\ isSubmitting' = TRUE
            /\ comments' = <<newComment>> \o comments
            /\ formState' = initialForm
            /\ timers' = timers + 1
    /\ UNCHANGED <<createdAtMs, nowMs, derived>>

\* mutant of Timeout: the callback leaves the flag as it is
TimeoutKeepsFlag ==
    /\ timers > 0
    /\ timers' = timers - 1
    /\ lastCmd' = "other"
    /\ UNCHANGED <<comments, formState, isSubmitting, createdAtMs, nowMs, derived>>

\* the callback of setTimeout(() => setIsSubmitting(false), 300)
Timeout ==
    /\ timers > 0
    /\ timers' = timers - 1
    /\ isSubmitting' = FALSE
    /\ lastCmd' = "other"
    /\ UNCHANGED <<comments, formState, createdAtMs, nowMs, derived>>

\* mutant of toggleLike: the sign of the step is swapped
toggleLikeSwapped(prev, commentId) ==
    [k \in 1..Len(prev) |->
        IF prev[k].id # commentId THEN prev[k]
        ELSE LET nextLiked == ~prev[k].isLiked
             IN  [prev[k] EXCEPT !.isLiked = nextLiked,
                                 !.likes = @ + (IF nextLiked THEN -1 ELSE 1)]]

\* mutant of toggleLike: every click counts as one more like
toggleLikeAlwaysAdds(prev, commentId) ==
    [k \in 1..Len(prev) |->
        IF prev[k].id # commentId THEN prev[k]
        ELSE LET nextLiked == ~prev[k].isLiked
             IN  [prev[k] EXCEPT !.isLiked = nextLiked, !.likes = @ + 1]]

toggleLike(prev, commentId) ==
    [k \in 1..Len(prev) |->
        IF prev[k].id # commentId THEN prev[k]
        ELSE LET nextLiked == ~prev[k].isLiked
             IN  [prev[k] EXCEPT !.isLiked = nextLiked,
                                 !.likes = @ + (IF nextLiked THEN 1 ELSE -1)]]

\* onClick of a like button
ToggleLike ==
    \E id \in CommentIds :
        /\ comments' = toggleLike(comments, id)
        /\ lastCmd' = "other"
        /\ UNCHANGED <<formState, isSubmitting, timers, createdAtMs, nowMs, derived>>

Next ==
    \/ ChangeDisplayName
    \/ ChangeUsername
    \/ ChangeContent
    \/ handleSubmit
    \/ Timeout
    \/ ToggleLike

Spec == Init /\ [][Next]_vars

\* the timer of handleSubmit fires once it is set
FairSpec == Spec /\ WF_vars(Timeout)

---------------------------------------------------------------------------
(* relativeTimeFromNow on bounded inputs *)

MinutesPerDay == 60 * 24

\* elapsed times: both ends of every day up to two years and MaxDaysOver
\* days, the minute and hour boundaries, and a timestamp in the future
ElapsedSamples ==
    { [min |-> d * MinutesPerDay + m, ms |-> r] :
        d \in 0..(2 * 365 + MaxDaysOver),
        m \in {0, MinutesPerDay - 1}, r \in {0, MsPerMinute - 1} }
    \cup { [min |-> m, ms |-> r] :
             m \in {-1, 0, 1, 59, 60, 90, 119, 120}, r \in {0, 59000, 59999} }

NowSamples == { [min |-> 0, ms |-> 0], [min |-> 29000000, ms |-> 31415] }

InitLabel ==
    /\ comments = seedComments
    /\ formState = initialForm
    /\ isSubmitting = FALSE
    /\ timers = 0
    /\ nowMs \in NowSamples
    /\ createdAtMs \in { TimeDiff(nowMs, e) : e \in ElapsedSamples }
    /\ derived = "none"
    /\ lastCmd = "mount"

\* <time>{relativeTimeFromNow(comment.createdAt)}</time>
RenderLabel ==
    /\ lastCmd = "mount"
    /\ derived' = relativeTimeFromNow(createdAtMs, nowMs)
    /\ lastCmd' = "label"
    /\ UNCHANGED <<comments, formState, isSubmitting, timers, createdAtMs, nowMs>>

NextLabel == RenderLabel

SpecLabel == InitLabel /\ [][NextLabel]_vars

---------------------------------------------------------------------------
(* extractHashtags on bounded inputs *)

TagContents ==
    { <<"#","D","e","s","i","g","n">>,
      <<"#","d","e","s","i","g","n">>,
      <<"#","U","I">>,
      <<"#","a"," ","#","b"," ","#","a">>,
      <<"#","c","_","1"," ","#","d","#","e">>,
      <<"n","o"," ","#"," ","t","a","g">>,
      <<"#","#","B","-","x"," ","#">> }

tagComment(k, c) ==
    [ id |-> "t" \o ToString(k),
      displayName |-> <<"A","l">>,
      username |-> <<"@","a","l">>,
      avatarColor |-> "bg-sky-500",
      content |-> c,
      likes |-> 0, isLiked |-> FALSE, replies |-> 0 ]

TagCommentLists ==
    UNION { { [k \in 1..n |-> tagComment(k, f[k])] : f \in [1..n -> TagContents] } :
            n \in 0..MaxTagComments }

InitTags ==
    /\ comments \in TagCommentLists
    /\ formState = initialForm
    /\ isSubmitting = FALSE
    /\ timers = 0
    /\ createdAtMs = [min |-> 0, ms |-> 0]
    /\ nowMs = [min |-> 0, ms |-> 0]
    /\ derived = "none"
    /\ lastCmd = "mount"

\* the sidebar renders trendingTopics
RenderTopics ==
    /\ lastCmd = "mount"
    /\ derived' = trendingTopics
    /\ lastCmd' = "topics"
    /\ UNCHANGED <<comments, formState, isSubmitting, timers, createdAtMs, nowMs>>

NextTags == RenderTopics

SpecTags == InitTags /\ [][NextTags]_vars

---------------------------------------------------------------------------
(* Properties *)

\* a string that is not empty after trimming: it holds a character that is
\* not white space
NonBlank(s) == \E i \in 1..Len(s) : s[i] \notin WhiteSpace

DraftValid(f) ==
    NonBlank(f.displayName) /\ NonBlank(f.username) /\ NonBlank(f.content)

SeedIds == { seedComments[i].id : i \in 1..Len(seedComments) }

\* C1: a submit of a draft whose displayName, handle or content is empty
\* after trimming changes nothing in the comment sequence: same elements,
\* same order, same length.
C1_InvalidSubmitIsNoOp ==
    [][ (lastCmd' = "submit" /\ ~DraftValid(formState))
        => (comments' = comments /\ Len(comments') = Len(comments)) ]_vars

\* a submit was just rejected for a draft whose only fault is a blank content
C1_Witness ==
    /\ lastCmd = "submit"
    /\ formState.content = <<" ">>
    /\ NonBlank(formState.displayName)
    /\ NonBlank(formState.username)
    /\ Len(comments) = Len(seedComments)

\* C2: a submit of a valid draft yields the new comment followed by the
\* previous sequence in its order; the new handle starts with "@", and is
\* the draft handle itself when that began with "@" already.
C2_ValidSubmitPrepends ==
    [][ (lastCmd' = "submit" /\ DraftValid(formState))
        => /\ Len(comments') = Len(comments) + 1
           /\ Tail(comments') = comments
           /\ Head(comments').username[1] = "@"
           /\ (formState.username[1] = "@"
                 => Head(comments').username = formState.username)
           /\ (formState.username[1] # "@"
                 => Head(comments').username = <<"@">> \o formState.username) ]_vars

\* a second submit just went through: its comment leads the sequence, ahead
\* of the first one and of the seed comments
C2_Witness ==
    /\ lastCmd = "submit"
    /\ Len(comments) = Len(seedComments) + 2
    /\ comments[1].username = <<"@","j","o">>
    /\ comments[1].id \notin SeedIds
    /\ comments[2].id \notin SeedIds
    /\ comments[3].id = "c1"

\* C3: the stored draft content is never longer than 280 characters, and so
\* no comment's content is.
C3_ContentCapped ==
    /\ Len(formState.content) <= 280
    /\ \A i \in 1..Len(comments) : Len(comments[i].content) <= 280

\* a draft at the cap is stored while a comment made from such a draft is
\* in the sequence
C3_Witness ==
    /\ Len(formState.content) = 280
    /\ \E i \in 1..Len(comments) :
          comments[i].id \notin SeedIds /\ Len(comments[i].content) = 279

\* C4: every comment has likes >= 0, and a liked comment has likes >= 1.
C4_LikesNonNegative ==
    \A i \in 1..Len(comments) :
        /\ comments[i].likes >= 0
        /\ comments[i].isLiked => comments[i].likes >= 1

\* a submitted comment is liked, next to one that is not
C4_Witness ==
    /\ \E i \in 1..Len(comments) :
          comments[i].id \notin SeedIds /\ comments[i].isLiked /\ comments[i].likes = 1
    /\ \E i \in 1..Len(comments) :
          comments[i].id \notin SeedIds /\ ~comments[i].isLiked /\ comments[i].likes = 0

\* C5: toggleLike applied twice with the id of a comment gives back the
\* comment sequence it started from.
C5_ToggleTwiceRestores ==
    \A i \in 1..Len(comments) :
        toggleLike(toggleLike(comments, comments[i].id), comments[i].id) = comments

\* likes have been toggled: liked and unliked comments, seeds and submitted ones
C5_Witness ==
    /\ Len(comments) > Len(seedComments)
    /\ comments[1].isLiked
    /\ \E i \in 1..Len(comments) : comments[i].id = "c1" /\ comments[i].isLiked
    /\ \E i \in 1..Len(comments) : comments[i].id = "c3" /\ ~comments[i].isLiked

\* C8: interactionsToday is 83 plus the number of comments liked by the viewer.
C8_TotalInteractions ==
    interactionsToday =
        83 + Cardinality({ i \in 1..Len(comments) : comments[i].isLiked })

\* after a submit, the first seed comment alone is liked: 84
C8_Witness ==
    /\ Len(comments) = Len(seedComments) + 1
    /\ { comments[i].id : i \in { j \in 1..Len(comments) : comments[j].isLiked } } = {"c1"}
    /\ interactionsToday = 84

\* the eligibility predicate of the spec
Eligible ==
    /\ Len(formState.content) > 0
    /\ Len(formState.content) <= 280
    /\ NonBlank(formState.displayName)
    /\ NonBlank(formState.username)
    /\ ~isSubmitting

\* C9: whenever the eligibility predicate holds, a submit creates a comment.
C9_EligibleSubmitCreates ==
    [][ (lastCmd' = "submit" /\ Eligible) => Len(comments') = Len(comments) + 1 ]_vars

\* C10: isSubmitting is false at first; a submit of a valid draft leaves it
\* true; nothing else turns it from false to true; and once true it
\* becomes false again.
C10_SubmittingFlag ==
    /\ ~isSubmitting
    /\ [][ /\ (lastCmd' = "submit" /\ DraftValid(formState)) => isSubmitting'
           /\ (~isSubmitting /\ isSubmitting')
                 => (lastCmd' = "submit" /\ DraftValid(formState)) ]_vars
    /\ (isSubmitting ~> ~isSubmitting)

\* a second submit went through while the timer of the first was pending,
\* and one of the two timers has fired since
C10_Witness ==
    /\ Len(comments) = Len(seedComments) + 2
    /\ timers = 1
    /\ ~isSubmitting

\* the elapsed time of the label that was rendered
Elapsed == TimeDiff(nowMs, createdAtMs)

MinutesPerHour == MinutesPerDay \div 24

\* whole days elapsed
ElapsedDays == Elapsed.min \div MinutesPerDay

\* the threshold table of the spec
LabelTable ==
    IF Elapsed.min < 1 THEN "just now"
    ELSE IF Elapsed.min < MinutesPerHour THEN ToString(Elapsed.min) \o "m"
    ELSE IF Elapsed.min < MinutesPerDay
         THEN ToString(Elapsed.min \div MinutesPerHour) \o "h"
    ELSE IF ElapsedDays < 7 THEN ToString(ElapsedDays) \o "d"
    ELSE IF ElapsedDays < 35 THEN ToString(ElapsedDays \div 7) \o "w"
    ELSE IF ElapsedDays < 365 THEN ToString(ElapsedDays \div 30) \o "mo"
    ELSE ToString(ElapsedDays \div 365) \o "y"

\* C6: the label follows the threshold table of the spec for every elapsed
\* time; from 35 days up to 365 days it is a count of months ("mo").
C6_LabelFollowsTable ==
    lastCmd = "label" => derived = LabelTable

\* the characters a hashtag is made of behind its "#"
TokenChars ==
    { "a","b","c","d","e","f","g","h","i","j","k","l","m",
      "n","o","p","q","r","s","t","u","v","w","x","y","z",
      "A","B","C","D","E","F","G","H","I","J","K","L","M",
      "N","O","P","Q","R","S","T","U","V","W","X","Y","Z",
      "0","1","2","3","4","5","6","7","8","9","_" }

UpperSeq == <<"A","B","C","D","E","F","G","H","I","J","K","L","M",
              "N","O","P","Q","R","S","T","U","V","W","X","Y","Z">>
LowerSeq == <<"a","b","c","d","e","f","g","h","i","j","k","l","m",
              "n","o","p","q","r","s","t","u","v","w","x","y","z">>

FoldChar(c) ==
    IF \E k \in 1..Len(UpperSeq) : UpperSeq[k] = c
    THEN LowerSeq[CHOOSE k \in 1..Len(UpperSeq) : UpperSeq[k] = c]
    ELSE c

\* the occurrences of hashtags: <<n, i>> when a token "#" + [A-Za-z0-9_]+
\* starts at index i of the content of comment n
Occurrences ==
    { o \in UNION { { <<n, i>> : i \in 1..Len(comments[n].content) } :
                    n \in 1..Len(comments) } :
        LET c == comments[o[1]].content
        IN  /\ c[o[2]] = "#"
            /\ o[2] < Len(c)
            /\ c[o[2] + 1] \in TokenChars }

\* the tag of an occurrence: the token up to the end of its run of token
\* characters, in lower case
TagOf(o) ==
    LET c == comments[o[1]].content
        j == CHOOSE j \in (o[2] + 1)..Len(c) :
                /\ \A k \in (o[2] + 1)..j : c[k] \in TokenChars
                /\ j = Len(c) \/ c[j + 1] \notin TokenChars
    IN  [k \in 1..(j - o[2] + 1) |-> FoldChar(c[o[2] + k - 1])]

AllTags == { TagOf(o) : o \in Occurrences }

TagCount(t) == Cardinality({ o \in Occurrences : TagOf(o) = t })

\* o1 comes before o2 in the scan
ScannedBefore(o1, o2) ==
    o1[1] < o2[1] \/ (o1[1] = o2[1] /\ o1[2] < o2[2])

FirstOccurrence(t) ==
    CHOOSE o \in Occurrences :
        /\ TagOf(o) = t
        /\ \A o2 \in Occurrences : TagOf(o2) = t => (o2 = o \/ ScannedBefore(o, o2))

\* t1 is listed ahead of t2: more occurrences, or as many and met first
RankedAhead(t1, t2) ==
    \/ TagCount(t1) > TagCount(t2)
    \/ /\ TagCount(t1) = TagCount(t2)
       /\ ScannedBefore(FirstOccurrence(t1), FirstOccurrence(t2))

Contents == [n \in 1..Len(comments) |-> comments[n].content]

\* C7: extractHashtags returns at most 4 pairs (tag, count): the tags are
\* lower-case hashtags of the contents, each with the number of its
\* occurrences over all comments, listed by count descending and, for equal
\* counts, in the order of first occurrence; the tags left out rank behind
\* the four listed.  "#Design", "#design", "#UI" give ("#design", 2),
\* ("#ui", 1), and contents without hashtags give the empty sequence.
C7_TrendingTags ==
    lastCmd = "topics" =>
        /\ Len(derived) <= 4
        /\ \A k \in 1..Len(derived) :
              /\ derived[k].tag \in AllTags
              /\ derived[k].count = TagCount(derived[k].tag)
        /\ \A k \in 1..(Len(derived) - 1) :
              RankedAhead(derived[k].tag, derived[k + 1].tag)
        /\ \A t \in AllTags :
              \/ \E k \in 1..Len(derived) : derived[k].tag = t
              \/ /\ Len(derived) = 4
                 /\ \A k \in 1..4 : RankedAhead(derived[k].tag, t)
        /\ (AllTags = {} => derived = <<>>)
        /\ (Contents = << <<"#","D","e","s","i","g","n">>,
                          <<"#","d","e","s","i","g","n">>,
                          <<"#","U","I">> >>
              => derived = << [tag |-> <<"#","d","e","s","i","g","n">>, count |-> 2],
                              [tag |-> <<"#","u","i">>, count |-> 1] >>)

\* more than four tags were counted, with a tie among those listed
C7_Witness ==
    /\ lastCmd = "topics"
    /\ Cardinality(AllTags) > 4
    /\ Len(derived) = 4
    /\ \E k \in 1..3 : derived[k].count = derived[k + 1].count
    /\ derived[1].count > derived[4].count

=============================================================================
